---- MODULE Spec2Model ----
(***************************************************************************)
(* The STRR application lifecycle: the three request handlers of           *)
(* resources/application.py that create an application, reconcile its      *)
(* payment and let an examiner decide it, together with the service        *)
(* methods of services/application_service.py they call.  The database     *)
(* table of applications, the event log and the registrations are the      *)
(* state; every handler is one action.                                     *)
(***************************************************************************)
EXTENDS Integers, Sequences, FiniteSets, TLC

VARIABLES apps,           \* the application table: row i has id i
          events,         \* the event log, in the order of the save_event calls
          registrations,  \* the registrations table: row i has id i
          now,            \* the clock: one tick per request
          history,        \* per application, the statuses its row has held
          last            \* the last request, its response and the state before it

vars == <<apps, events, registrations, now, history, last>>

(* ------------------------------ bounds -------------------------------- *)
MaxApps == 1
MaxTime == 3

(* --------------------------- value domains ---------------------------- *)
\* Python's None in an integer column / in a string column or argument
NoInt == 0
None == "None"

Users == {1, 2}
Accounts == {"A1", "A2"}
Roles == {"host", "examiner", "system"}

Status == {"DRAFT", "PAYMENT_DUE", "PAID", "AUTO_APPROVED", "PROVISIONALLY_APPROVED",
           "FULL_REVIEW_APPROVED", "PROVISIONAL_REVIEW", "ADDITIONAL_INFO_REQUESTED",
           "FULL_REVIEW", "DECLINED", "PROVISIONAL"}

APPLICATION_TERMINAL_STATES ==
  {"FULL_REVIEW_APPROVED", "PROVISIONALLY_APPROVED", "AUTO_APPROVED", "DECLINED"}

APPLICATION_STATES_STAFF_ACTION ==
  {"FULL_REVIEW_APPROVED", "PROVISIONALLY_APPROVED", "DECLINED", "ADDITIONAL_INFO_REQUESTED"}

APPLICATION_UNPAID_STATES == {"DRAFT", "PAYMENT_DUE"}

\* the invoice status codes the payment service reports; DELETED stands for
\* every code the reconciliation has no rule for
PaymentStatus == {"CREATED", "COMPLETED", "APPROVED", "DELETED"}

\* the "status" a status-update request may carry: none, or a string (the
\* schema of the request body is the validator's business)
RequestStatuses ==
  {None, "", "paid", "AUTO_APPROVED", "declined", "FULL_REVIEW_APPROVED",
   "PROVISIONALLY_APPROVED", "ADDITIONAL_INFO_REQUESTED"}

\* str.upper() on the strings above
upper(s) ==
  CASE s = "declined" -> "DECLINED"
    [] s = "draft" -> "DRAFT"
    [] s = "paid" -> "PAID"
    [] OTHER -> s

(* ------------------------------ the rows ------------------------------ *)
\* Application(): the column defaults
Application(submitter, account) ==
  [status |-> "DRAFT", decision_date |-> NoInt, invoice_id |-> NoInt,
   payment_status_code |-> None, payment_completion_date |-> NoInt,
   payment_account |-> account, registration_id |-> NoInt,
   submitter_id |-> submitter, reviewer_id |-> NoInt, type |-> "REGISTRATION"]

\* EventsService.save_event appends one record to the log.  saved_status and
\* saved_registration_id are no columns: they note what the application's row
\* holds in the table (saved) at the moment the event is written
save_event(log, type, name, application_id, registration_id, saved) ==
  Append(log, [event_type |-> type, event_name |-> name,
               application_id |-> application_id, registration_id |-> registration_id,
               saved_status |-> saved.status,
               saved_registration_id |-> saved.registration_id])

\* RegistrationService.create_registration adds a registration owned by
\* (user_id, account_id) and returns it; its id is the new row's
create_registration(regs, user_id, account_id) ==
  Append(regs, [user_id |-> user_id, sbc_account_id |-> account_id])

\* Application.find_by_id
find_by_id(table, application_id) ==
  IF application_id \in 1..Len(table) THEN application_id ELSE NoInt

(* ----------------------------- the service ---------------------------- *)
\* the account of the caller not written to the new row
save_application_no_account(table, user, account_id) ==
  Append(table, [Application(user, account_id) EXCEPT !.payment_account = None])

\* ApplicationService.save_application: a new DRAFT row of the caller
save_application(table, user, account_id) ==
  Append(table, Application(user, account_id))

\* Application.get_application(user_id, account_id, application_id): the row
\* with that id, submitter and payment account, if there is one
get_application_of(table, user_id, account_id, application_id) ==
  IF /\ application_id \in 1..Len(table)
     /\ table[application_id].submitter_id = user_id
     /\ table[application_id].payment_account = account_id
  THEN application_id ELSE NoInt

\* the ownership lookup replaced by a lookup of the id alone
is_user_authorized_for_application_unowned(table, role, user_id, account_id, application_id) ==
  IF role = "examiner" \/ role = "system" THEN TRUE
  ELSE application_id \in 1..Len(table)

\* ApplicationService.is_user_authorized_for_application
is_user_authorized_for_application(table, role, user_id, account_id, application_id) ==
  IF role = "examiner" \/ role = "system" THEN TRUE
  ELSE get_application_of(table, user_id, account_id, application_id) # NoInt

\* ApplicationService.get_application: the id of the row, or NoInt for None
get_application(table, role, user_id, account_id, application_id) ==
  IF is_user_authorized_for_application(table, role, user_id, account_id, application_id)
  THEN find_by_id(table, application_id) ELSE NoInt

\* the body of update_application_payment_details_and_status after its guard:
\* the in-memory application, then the events it logs around application.save()
\* the rule for a created invoice not restricted to DRAFT applications
PaymentRules_created_is_due(application, inv, t) ==
  LET a1 == [application EXCEPT !.invoice_id = inv.id,
                                !.payment_account = inv.accountId,
                                !.payment_status_code = inv.statusCode]
  IN IF a1.payment_status_code = "CREATED"
     THEN [a1 EXCEPT !.status = "PAYMENT_DUE"]
     ELSE IF a1.payment_status_code = "COMPLETED"
          THEN [a1 EXCEPT !.status = "PAID", !.payment_completion_date = inv.paymentDate]
          ELSE IF a1.payment_status_code = "APPROVED"
               THEN [a1 EXCEPT !.payment_status_code = "COMPLETED", !.status = "PAID",
                               !.payment_completion_date = t]
               ELSE a1

\* a completed payment marks the application PAID without its payment date
PaymentRules_no_date(application, inv, t) ==
  LET a1 == [application EXCEPT !.invoice_id = inv.id,
                                !.payment_account = inv.accountId,
                                !.payment_status_code = inv.statusCode]
  IN IF a1.status = "DRAFT" /\ a1.payment_status_code = "CREATED"
     THEN [a1 EXCEPT !.status = "PAYMENT_DUE"]
     ELSE IF a1.payment_status_code = "COMPLETED"
          THEN [a1 EXCEPT !.status = "PAID"]
          ELSE IF a1.payment_status_code = "APPROVED"
               THEN [a1 EXCEPT !.payment_status_code = "COMPLETED", !.status = "PAID",
                               !.payment_completion_date = t]
               ELSE a1

\* the rule for a created invoice left out: the application stays DRAFT
PaymentRules_stays_draft(application, inv, t) ==
  [application EXCEPT !.invoice_id = inv.id, !.payment_account = inv.accountId,
                      !.payment_status_code = inv.statusCode]

\* an approved payment marks the application PAID but is not normalised
PaymentRules_keeps_approved(application, inv, t) ==
  LET a1 == [application EXCEPT !.invoice_id = inv.id,
                                !.payment_account = inv.accountId,
                                !.payment_status_code = inv.statusCode]
  IN IF a1.status = "DRAFT" /\ a1.payment_status_code = "CREATED"
     THEN [a1 EXCEPT !.status = "PAYMENT_DUE"]
     ELSE IF a1.payment_status_code = "COMPLETED"
          THEN [a1 EXCEPT !.status = "PAID", !.payment_completion_date = inv.paymentDate]
          ELSE IF a1.payment_status_code = "APPROVED"
               THEN [a1 EXCEPT !.status = "PAID", !.payment_completion_date = t]
               ELSE a1

PaymentRules(application, inv, t) ==
  LET a1 == [application EXCEPT !.invoice_id = inv.id,
                                !.payment_account = inv.accountId,
                                !.payment_status_code = inv.statusCode]
  IN IF a1.status = "DRAFT" /\ a1.payment_status_code = "CREATED"
     THEN [a1 EXCEPT !.status = "PAYMENT_DUE"]
     ELSE IF a1.payment_status_code = "COMPLETED"
          THEN [a1 EXCEPT !.status = "PAID", !.payment_completion_date = inv.paymentDate]
          ELSE IF a1.payment_status_code = "APPROVED"
               THEN [a1 EXCEPT !.payment_status_code = "COMPLETED", !.status = "PAID",
                               !.payment_completion_date = t]
               ELSE a1

\* the guard left out: a completed payment is processed again
PaymentAlreadyCompleted_never(application) == FALSE

\* the guard of update_application_payment_details_and_status
PaymentAlreadyCompleted(application) == application.payment_status_code = "COMPLETED"

\* APPLICATION_SUBMITTED logged for every invoice reported as CREATED
update_application_payment_details_and_status_logs_created(table, log, id, inv, t) ==
  IF PaymentAlreadyCompleted(table[id]) THEN [apps |-> table, events |-> log]
  ELSE LET application == table[id]
           a2 == PaymentRules(application, inv, t)
           log1 == IF inv.statusCode = "CREATED"
                   THEN save_event(log, "APPLICATION", "APPLICATION_SUBMITTED", id, NoInt,
                                   application)
                   ELSE log
           log2 == IF a2.payment_status_code = "COMPLETED"
                   THEN save_event(log1, "APPLICATION", "PAYMENT_COMPLETE", id, NoInt, a2)
                   ELSE log1
       IN [apps |-> [table EXCEPT ![id] = a2], events |-> log2]

\* ApplicationService.update_application_payment_details_and_status on row id:
\* the table and the log it leaves
update_application_payment_details_and_status(table, log, id, inv, t) ==
  IF PaymentAlreadyCompleted(table[id]) THEN [apps |-> table, events |-> log]
  ELSE LET application == table[id]
           a2 == PaymentRules(application, inv, t)
           log1 == IF application.status = "DRAFT" /\ inv.statusCode = "CREATED"
                   THEN save_event(log, "APPLICATION", "APPLICATION_SUBMITTED", id, NoInt,
                                   application)
                   ELSE log
           log2 == IF a2.payment_status_code = "COMPLETED"
                   THEN save_event(log1, "APPLICATION", "PAYMENT_COMPLETE", id, NoInt, a2)
                   ELSE log1
       IN [apps |-> [table EXCEPT ![id] = a2], events |-> log2]

\* ApplicationService._get_event_name; Unbound is the local that was never
\* assigned, whose return raises UnboundLocalError
Unbound == "<unbound>"
\* a name bound before the branches: an unmapped status logs an approval
get_event_name_default(application_status) ==
  IF application_status = "DECLINED" THEN "MANUALLY_DENIED"
  ELSE IF application_status = "ADDITIONAL_INFO_REQUESTED" THEN "MORE_INFORMATION_REQUESTED"
  ELSE "MANUALLY_APPROVED"

get_event_name(application_status) ==
  IF application_status = "FULL_REVIEW_APPROVED" THEN "MANUALLY_APPROVED"
  ELSE IF application_status = "DECLINED" THEN "MANUALLY_DENIED"
  ELSE IF application_status = "ADDITIONAL_INFO_REQUESTED" THEN "MORE_INFORMATION_REQUESTED"
  ELSE Unbound

\* a registration for every decision, not only for the approval
Approves_any_decision(application) == application.status \in APPLICATION_TERMINAL_STATES

\* if application.status == Application.Status.FULL_REVIEW_APPROVED
Approves(application) == application.status = "FULL_REVIEW_APPROVED"

\* the event written without the id of the registration
RegistrationCreated_untagged(log, id, registration_id, saved) ==
  save_event(log, "REGISTRATION", "REGISTRATION_CREATED", id, NoInt, saved)

\* EventsService.save_event(REGISTRATION, REGISTRATION_CREATED,
\* application_id=application.id, registration_id=registration.id)
RegistrationCreated(log, id, registration_id, saved) ==
  save_event(log, "REGISTRATION", "REGISTRATION_CREATED", id, registration_id, saved)

\* the registration created for the reviewer instead of the submitter
RegistrationOwner_reviewer(application, reviewer) ==
  [user_id |-> reviewer, account_id |-> application.payment_account]

\* the arguments update_application_status gives create_registration
RegistrationOwner(application, reviewer) ==
  [user_id |-> application.submitter_id, account_id |-> application.payment_account]

\* the assignment of registration_id forgotten
Register_forgets(application, registration_id) == application

\* application.registration_id = registration.id
Register(application, registration_id) ==
  [application EXCEPT !.registration_id = registration_id]

\* the decision date set, the reviewer forgotten
Decide_no_reviewer(application, reviewer, t) ==
  IF application.status \in APPLICATION_TERMINAL_STATES
  THEN [application EXCEPT !.decision_date = t]
  ELSE application

\* the decision fields update_application_status sets on the in-memory row
Decide(application, reviewer, t) ==
  IF application.status \in APPLICATION_TERMINAL_STATES
  THEN [application EXCEPT !.decision_date = t, !.reviewer_id = reviewer]
  ELSE application

\* update_application_status saving the new status before it creates the
\* registration
update_application_status_saves_first(table, log, regs, id, application_status, reviewer, provOk, t) ==
  LET a1 == [table[id] EXCEPT !.status = application_status]
      approve == a1.status = "FULL_REVIEW_APPROVED"
  IN IF approve /\ ~provOk
     THEN [apps |-> [table EXCEPT ![id] = a1], events |-> log, registrations |-> regs,
           raised |-> TRUE]
     ELSE LET regs1 == IF approve
                       THEN create_registration(regs, a1.submitter_id, a1.payment_account)
                       ELSE regs
              log1 == IF approve
                      THEN save_event(log, "REGISTRATION", "REGISTRATION_CREATED", id,
                                      Len(regs1), table[id])
                      ELSE log
              a2 == IF approve THEN [a1 EXCEPT !.registration_id = Len(regs1)] ELSE a1
              a3 == IF a2.status \in APPLICATION_TERMINAL_STATES
                    THEN [a2 EXCEPT !.decision_date = t, !.reviewer_id = reviewer] ELSE a2
              saved == [table EXCEPT ![id] = a3]
              name == get_event_name(a3.status)
          IN IF name = Unbound
             THEN [apps |-> saved, events |-> log1, registrations |-> regs1, raised |-> TRUE]
             ELSE [apps |-> saved,
                   events |-> save_event(log1, "APPLICATION", name, id, NoInt, a3),
                   registrations |-> regs1, raised |-> FALSE]

\* ApplicationService.update_application_status on row id.  provOk: whether
\* RegistrationRequest(...) and create_registration succeed.  raised: whether
\* an exception leaves the method (before application.save() the row in the
\* table is untouched: only the in-memory object a1 carries the new status)
update_application_status(table, log, regs, id, application_status, reviewer, provOk, t) ==
  LET a1 == [table[id] EXCEPT !.status = application_status]
      approve == Approves(a1)
  IN IF approve /\ ~provOk
     THEN [apps |-> table, events |-> log, registrations |-> regs, raised |-> TRUE]
     ELSE LET owner == RegistrationOwner(a1, reviewer)
              regs1 == IF approve
                       THEN create_registration(regs, owner.user_id, owner.account_id)
                       ELSE regs
              log1 == IF approve
                      THEN RegistrationCreated(log, id, Len(regs1), table[id])
                      ELSE log
              a2 == IF approve THEN Register(a1, Len(regs1)) ELSE a1
              a3 == Decide(a2, reviewer, t)
              saved == [table EXCEPT ![id] = a3]
              name == get_event_name(a3.status)
          IN IF name = Unbound
             THEN [apps |-> saved, events |-> log1, registrations |-> regs1, raised |-> TRUE]
             ELSE [apps |-> saved,
                   events |-> save_event(log1, "APPLICATION", name, id, NoInt, a3),
                   registrations |-> regs1, raised |-> FALSE]

(* ---------------------------- the gateway ----------------------------- *)
\* what strr_pay.create_invoice / get_payment_details_by_invoice_id may answer
\* for invoice id of account: any status code, a payment date with COMPLETED
InvoiceDetails(id, account, t) ==
  {[id |-> id, accountId |-> account, statusCode |-> s, paymentDate |-> NoInt] :
      s \in PaymentStatus \ {"COMPLETED"}}
  \cup {[id |-> id, accountId |-> account, statusCode |-> "COMPLETED", paymentDate |-> d] :
      d \in {t}}

\* strr_pay.get_payment_details_by_invoice_id(jwt, payment_account, invoice_id)
\* for the invoice of application_id
get_payment_details_by_invoice_id(table, application_id, t) ==
  IF application_id \in 1..Len(table)
  THEN InvoiceDetails(table[application_id].invoice_id, table[application_id].payment_account, t)
  ELSE {}

\* the id the payment service gives its next invoice
NextInvoiceId(table) == Cardinality({i \in 1..Len(table) : table[i].invoice_id # NoInt}) + 1

(* ------------------------- the request record ------------------------- *)
\* no request yet
NoRequest ==
  [op |-> "none", application_id |-> NoInt, code |-> "NONE", status |-> None,
   account_id |-> None, invoice_id |-> NoInt, statusCode |-> None,
   called |-> FALSE, application_status |-> None,
   reviewer |-> NoInt, provOk |-> TRUE, event_failed |-> FALSE, new_status |-> None,
   apps |-> <<>>, events |-> <<>>, registrations |-> <<>>]

\* a request as received: its target and the state it found
Request(op, application_id) ==
  [NoRequest EXCEPT !.op = op, !.application_id = application_id,
                    !.apps = apps, !.events = events, !.registrations = registrations]

(* ---------------------------- the handlers ---------------------------- *)
Init ==
  /\ apps = <<>>
  /\ events = <<>>
  /\ registrations = <<>>
  /\ now = 1
  /\ history = <<>>
  /\ last = NoRequest

\* the statuses held so far, once the table has been saved as given
Held(held, table) ==
  [i \in 1..Len(table) |->
     (IF i <= Len(held) THEN held[i] ELSE {}) \cup {table[i].status}]

\* the callers a request may come from
Callers == Roles \X Users \X (Accounts \cup {None})

\* POST /applications with a body the schema rejects
create_application_invalid ==
  /\ now <= MaxTime
  /\ now' = now + 1
  /\ last' = [Request("create", NoInt) EXCEPT !.code = "BAD_REQUEST"]
  /\ UNCHANGED <<apps, events, registrations, history>>

\* the new row rolled back when the invoice cannot be created
create_application_rolled_back(user, account_id) ==
  /\ now <= MaxTime
  /\ Len(apps) < MaxApps
  /\ now' = now + 1
  /\ last' = [Request("create", Len(apps) + 1)
                EXCEPT !.code = "EXTERNAL_SERVICE_ERROR", !.account_id = account_id]
  /\ UNCHANGED <<apps, events, registrations, history>>

\* POST /applications, the invoice cannot be created: the DRAFT row stays
create_application_no_invoice(user, account_id) ==
  /\ now <= MaxTime
  /\ Len(apps) < MaxApps
  /\ now' = now + 1
  /\ apps' = save_application(apps, user, account_id)
  /\ history' = Held(history, apps')
  /\ last' = [Request("create", Len(apps) + 1)
                EXCEPT !.code = "EXTERNAL_SERVICE_ERROR", !.account_id = account_id]
  /\ UNCHANGED <<events, registrations>>

\* POST /applications
create_application(user, account_id, invoice_details) ==
  /\ now <= MaxTime
  /\ Len(apps) < MaxApps
  /\ now' = now + 1
  /\ LET id == Len(apps) + 1
         r == update_application_payment_details_and_status(
                save_application(apps, user, account_id), events, id, invoice_details, now)
     IN /\ apps' = r.apps
        /\ events' = r.events
        /\ history' = Held(Held(history, save_application(apps, user, account_id)), r.apps)
        /\ last' = [Request("create", id)
                      EXCEPT !.code = "CREATED", !.account_id = account_id,
                             !.invoice_id = invoice_details.id,
                             !.statusCode = invoice_details.statusCode]
  /\ UNCHANGED registrations

\* the checks of PUT /applications/<id>/payment-details before the payment
\* service is asked: the response they give, or "PASS"
PaymentRequestCheck(table, caller, application_id) ==
  IF caller[3] = None THEN "BAD_REQUEST"
  ELSE IF get_application(table, caller[1], caller[2], caller[3], application_id) = NoInt
       THEN "UNAUTHORIZED"
  ELSE "PASS"

\* PUT /applications/<id>/payment-details answered with an error: no
\* Account-Id header, no such application of the caller, or the payment
\* service fails (as it does for an application that has no invoice)
update_application_payment_details_rejected(application_id, code) ==
  /\ now <= MaxTime
  /\ \E caller \in Callers :
       LET check == PaymentRequestCheck(apps, caller, application_id)
       IN IF check = "PASS" THEN code = "EXTERNAL_SERVICE_ERROR" ELSE code = check
  /\ now' = now + 1
  /\ last' = [Request("payment", application_id) EXCEPT !.code = code]
  /\ UNCHANGED <<apps, events, registrations, history>>

\* PUT /applications/<id>/payment-details
update_application_payment_details(application_id, invoice_details) ==
  /\ now <= MaxTime
  /\ \E caller \in Callers : PaymentRequestCheck(apps, caller, application_id) = "PASS"
  /\ apps[application_id].invoice_id # NoInt
  /\ now' = now + 1
  /\ LET r == update_application_payment_details_and_status(
                apps, events, application_id, invoice_details, now)
     IN /\ apps' = r.apps
        /\ events' = r.events
        /\ history' = Held(history, r.apps)
  /\ last' = [Request("payment", application_id)
                EXCEPT !.code = "OK", !.invoice_id = invoice_details.id,
                       !.statusCode = invoice_details.statusCode]
  /\ UNCHANGED registrations

\* the checks without the terminal-state check
StatusRequestCheck_no_terminal(table, user, application_id, status) ==
  IF status = None \/ status = "" \/ upper(status) \notin APPLICATION_STATES_STAFF_ACTION
  THEN "BAD_REQUEST"
  ELSE IF get_application(table, "examiner", user, None, application_id) = NoInt
       THEN "NOT_FOUND"
  ELSE "PASS"

\* the requested status checked against the whole enumeration
StatusRequestCheck_any_status(table, user, application_id, status) ==
  IF status = None \/ status = "" \/ upper(status) \notin Status
  THEN "BAD_REQUEST"
  ELSE IF get_application(table, "examiner", user, None, application_id) = NoInt
       THEN "NOT_FOUND"
  ELSE IF table[application_id].status \in APPLICATION_TERMINAL_STATES THEN "BAD_REQUEST"
  ELSE "PASS"

\* the requested status checked against the wrong list
StatusRequestCheck_wrong_list(table, user, application_id, status) ==
  IF status = None \/ status = "" \/ upper(status) \notin APPLICATION_TERMINAL_STATES
  THEN "BAD_REQUEST"
  ELSE IF get_application(table, "examiner", user, None, application_id) = NoInt
       THEN "NOT_FOUND"
  ELSE IF table[application_id].status \in APPLICATION_TERMINAL_STATES THEN "BAD_REQUEST"
  ELSE "PASS"

\* the checks of PUT /applications/<id>/status before the service is called:
\* the response they give, or "PASS".  The caller is an examiner (the route
\* admits no other role), so get_application is find_by_id
StatusRequestCheck(table, user, application_id, status) ==
  IF status = None \/ status = "" \/ upper(status) \notin APPLICATION_STATES_STAFF_ACTION
  THEN "BAD_REQUEST"
  ELSE IF get_application(table, "examiner", user, None, application_id) = NoInt
       THEN "NOT_FOUND"
  ELSE IF table[application_id].status \in APPLICATION_TERMINAL_STATES THEN "BAD_REQUEST"
  ELSE "PASS"

\* PUT /applications/<id>/status answered by one of the checks
update_application_status_rejected(application_id, status) ==
  /\ now <= MaxTime
  /\ \E user \in Users :
       /\ StatusRequestCheck(apps, user, application_id, status) # "PASS"
       /\ last' = [Request("status", application_id)
                     EXCEPT !.status = status,
                            !.code = StatusRequestCheck(apps, user, application_id, status)]
  /\ now' = now + 1
  /\ UNCHANGED <<apps, events, registrations, history>>

\* PUT /applications/<id>/status reaching ApplicationService.update_application_status
update_application_status_request(user, application_id, status, provOk) ==
  /\ now <= MaxTime
  /\ StatusRequestCheck(apps, user, application_id, status) = "PASS"
  /\ provOk \/ upper(status) = "FULL_REVIEW_APPROVED"
  /\ now' = now + 1
  /\ LET r == update_application_status(apps, events, registrations, application_id,
                                        upper(status), user, provOk, now)
     IN /\ apps' = r.apps
        /\ events' = r.events
        /\ registrations' = r.registrations
        /\ history' = Held(history, r.apps)
        /\ last' = [Request("status", application_id)
                      EXCEPT !.status = status, !.called = TRUE, !.reviewer = user,
                             !.application_status = upper(status), !.provOk = provOk,
                             !.code = IF r.raised THEN "INTERNAL_SERVER_ERROR" ELSE "OK"]

Next ==
  \/ create_application_invalid
  \/ \E user \in Users, account_id \in Accounts : create_application_no_invoice(user, account_id)
  \/ \E user \in Users, account_id \in Accounts :
       \E invoice_details \in InvoiceDetails(NextInvoiceId(apps), account_id, now) :
         create_application(user, account_id, invoice_details)
  \/ \E application_id \in 1..MaxApps,
        code \in {"BAD_REQUEST", "UNAUTHORIZED", "EXTERNAL_SERVICE_ERROR"} :
       update_application_payment_details_rejected(application_id, code)
  \/ \E application_id \in 1..MaxApps :
       \E invoice_details \in get_payment_details_by_invoice_id(apps, application_id, now) :
         update_application_payment_details(application_id, invoice_details)
  \/ \E application_id \in 1..MaxApps, status \in RequestStatuses :
       update_application_status_rejected(application_id, status)
  \/ \E user \in Users, application_id \in 1..MaxApps, status \in RequestStatuses,
        provOk \in BOOLEAN :
       update_application_status_request(user, application_id, status, provOk)

Spec == Init /\ [][Next]_vars

(* ------------------------------ the queries ---------------------------- *)
MaxRows == 2
MaxPage == 3
MaxLimit == 2

\* query.order_by(Application.id.desc()): the ids of a set of rows, largest first
RECURSIVE order_by_id_desc(_)
order_by_id_desc(ids) ==
  IF ids = {} THEN <<>>
  ELSE LET top == CHOOSE i \in ids : \A j \in ids : j <= i
       IN <<top>> \o order_by_id_desc(ids \ {top})

\* query.paginate(per_page=, page=) of Flask-SQLAlchemy, called without
\* error_out: it aborts with 404 when the page has no items and is not
\* page 1; otherwise it gives the items of the page and the count of the
\* whole query
paginate(query, page, per_page) ==
  LET first == (page - 1) * per_page + 1
      end == IF page * per_page < Len(query) THEN page * per_page ELSE Len(query)
      items == SubSeq(query, first, end)
  IN IF items = <<>> /\ page # 1
     THEN [aborted |-> TRUE, items |-> <<>>, total |-> 0]
     ELSE [aborted |-> FALSE, items |-> items, total |-> Len(query)]

\* the filter on submitter and payment account left out
find_by_user_and_account_unrestricted(table, user_id, account_id, status, page, limit, is_examiner) ==
  paginate(order_by_id_desc({i \in 1..Len(table) :
                               (status # None /\ status # "") => table[i].status = upper(status)}),
           page, limit)

\* Application.find_by_user_and_account
find_by_user_and_account(table, user_id, account_id, status, page, limit, is_examiner) ==
  LET owned == IF ~is_examiner
               THEN {i \in 1..Len(table) : /\ table[i].submitter_id = user_id
                                           /\ table[i].payment_account = account_id}
               ELSE 1..Len(table)
      filtered == IF status # None /\ status # ""
                  THEN {i \in owned : table[i].status = upper(status)}
                  ELSE owned
  IN paginate(order_by_id_desc(filtered), page, limit)

\* Application.search_applications; hits are the rows whose application_tsv
\* the text index matches
search_applications(table, search_text, hits, status, page, limit) ==
  LET found == IF search_text # None /\ search_text # ""
               THEN {i \in 1..Len(table) : i \in hits}
               ELSE 1..Len(table)
      filtered == IF status # None /\ status # ""
                  THEN {i \in found : table[i].status = upper(status)}
                  ELSE found
  IN paginate(order_by_id_desc(filtered), page, limit)

\* the rows the queries run on: applications saved without an invoice, some
\* of them declined by an examiner afterwards
QueryRows ==
  {Application(u, a) : u \in Users, a \in Accounts}
  \cup {Decide([Application(u, a) EXCEPT !.status = "DECLINED"], 2, 1) :
          u \in Users, a \in Accounts}
QueryTables == UNION {[1..n -> QueryRows] : n \in 0..MaxRows}
StatusFilters == {None, "draft", "DECLINED"}
\* what application_tsv.match may select: every row, no row, every other row
TextHits(table) ==
  {1..Len(table), {}, {i \in 1..Len(table) : i % 2 = 1}}
SearchTexts == {None, "", "l", "la", "lak", "lake"}

NoQuery ==
  [op |-> "none", role |-> None, user_id |-> NoInt, account_id |-> None,
   application_id |-> NoInt, status |-> None, search_text |-> None, hits |-> {},
   page |-> NoInt, limit |-> NoInt, code |-> "NONE", authorized |-> FALSE,
   application |-> NoInt, applications |-> <<>>, total |-> NoInt, searched |-> FALSE,
   apps |-> <<>>]

QueryInit ==
  /\ apps \in QueryTables
  /\ events = <<>>
  /\ registrations = <<>>
  /\ now = 1
  /\ history = [i \in 1..Len(apps) |-> {apps[i].status}]
  /\ last = NoQuery

\* ApplicationService.is_user_authorized_for_application, called on its own
authorize(role, user_id, account_id, application_id) ==
  /\ last.op = "none"
  /\ last' = [NoQuery EXCEPT
                !.op = "authorize", !.role = role, !.user_id = user_id,
                !.account_id = account_id, !.application_id = application_id,
                !.apps = apps, !.code = "OK",
                !.authorized = is_user_authorized_for_application(
                                 apps, role, user_id, account_id, application_id)]
  /\ UNCHANGED <<apps, events, registrations, now, history>>

\* GET /applications/<application_id>: no account is passed on
get_application_details(role, user_id, application_id) ==
  /\ last.op = "none"
  /\ LET application == get_application(apps, role, user_id, None, application_id)
     IN last' = [NoQuery EXCEPT
                   !.op = "details", !.role = role, !.user_id = user_id,
                   !.application_id = application_id, !.apps = apps,
                   !.application = application,
                   !.code = IF application = NoInt THEN "NOT_FOUND" ELSE "OK"]
  /\ UNCHANGED <<apps, events, registrations, now, history>>

\* the answer to a paginated query: the abort of paginate is not caught by
\* the handler and leaves as 404
Page(query, result) ==
  [query EXCEPT !.code = IF result.aborted THEN "NOT_FOUND" ELSE "OK",
                !.applications = result.items, !.total = result.total]

\* GET /applications
get_applications(role, user_id, account_id, status, page, limit) ==
  /\ last.op = "none"
  /\ last' = Page([NoQuery EXCEPT
                     !.op = "list", !.role = role, !.user_id = user_id,
                     !.account_id = account_id, !.status = status,
                     !.page = page, !.limit = limit, !.apps = apps],
                  find_by_user_and_account(apps, user_id, account_id, status, page, limit,
                                           role = "examiner"))
  /\ UNCHANGED <<apps, events, registrations, now, history>>

\* the check accepting a text of two characters
SearchTextCheck_two(search_text) ==
  IF search_text # None /\ search_text # "" /\ Len(search_text) < 2
  THEN "BAD_REQUEST" ELSE "PASS"

\* if search_text and len(search_text) < 3
SearchTextCheck(search_text) ==
  IF search_text # None /\ search_text # "" /\ Len(search_text) < 3
  THEN "BAD_REQUEST" ELSE "PASS"

\* GET /applications/search with a text that is too short
search_applications_rejected(search_text, status, page, limit) ==
  /\ last.op = "none"
  /\ SearchTextCheck(search_text) # "PASS"
  /\ last' = [NoQuery EXCEPT
                !.op = "search", !.role = "examiner", !.status = status,
                !.search_text = search_text, !.page = page, !.limit = limit,
                !.apps = apps, !.code = SearchTextCheck(search_text)]
  /\ UNCHANGED <<apps, events, registrations, now, history>>

\* GET /applications/search
search_applications_request(search_text, hits, status, page, limit) ==
  /\ last.op = "none"
  /\ SearchTextCheck(search_text) = "PASS"
  /\ last' = Page([NoQuery EXCEPT
                     !.op = "search", !.role = "examiner", !.status = status,
                     !.search_text = search_text, !.searched = TRUE,
                     !.hits = IF search_text = None \/ search_text = ""
                              THEN 1..Len(apps) ELSE hits,
                     !.page = page, !.limit = limit, !.apps = apps],
                  search_applications(apps, search_text, hits, status, page, limit))
  /\ UNCHANGED <<apps, events, registrations, now, history>>

\* one query is put to each table: no inputs are drawn once it is answered
Unanswered(inputs) == IF last.op = "none" THEN inputs ELSE {}

QueryNext ==
  \/ \E caller \in Unanswered(Callers), application_id \in 1..(MaxRows + 1) :
       authorize(caller[1], caller[2], caller[3], application_id)
  \/ \E role \in Unanswered(Roles), user_id \in Users, application_id \in 1..(MaxRows + 1) :
       get_application_details(role, user_id, application_id)
  \/ \E caller \in Unanswered(Callers), status \in StatusFilters,
        page \in 1..MaxPage, limit \in 1..MaxLimit :
       get_applications(caller[1], caller[2], caller[3], status, page, limit)
  \/ \E search_text \in Unanswered(SearchTexts), hits \in TextHits(apps), status \in StatusFilters,
        page \in 1..MaxPage, limit \in 1..MaxLimit :
       search_applications_request(search_text, hits, status, page, limit)
  \/ \E search_text \in Unanswered(SearchTexts), status \in StatusFilters,
        page \in 1..MaxPage, limit \in 1..MaxLimit :
       search_applications_rejected(search_text, status, page, limit)

QuerySpec == QueryInit /\ [][QueryNext]_vars

(* --------------------- failures of the event log ---------------------- *)
\* update_application_payment_details_and_status on row id when
\* EventsService.save_event raises.  raised: whether a save_event is reached;
\* status: the status of the in-memory application when it raises
update_application_payment_details_and_status_event_failure(table, id, inv, t) ==
  LET application == table[id]
      a2 == PaymentRules(application, inv, t)
  IN IF PaymentAlreadyCompleted(application)
     THEN [raised |-> FALSE, apps |-> table, status |-> application.status]
     ELSE IF application.status = "DRAFT" /\ inv.statusCode = "CREATED"
          THEN [raised |-> TRUE, apps |-> table, status |-> a2.status]
          ELSE IF a2.payment_status_code = "COMPLETED"
               THEN [raised |-> TRUE, apps |-> [table EXCEPT ![id] = a2], status |-> a2.status]
               ELSE [raised |-> FALSE, apps |-> [table EXCEPT ![id] = a2],
                     status |-> a2.status]

\* update_application_status on row id when the failing-th call of
\* EventsService.save_event raises (the registration itself is created)
update_application_status_event_failure(table, log, regs, id, application_status, reviewer, failing, t) ==
  LET a1 == [table[id] EXCEPT !.status = application_status]
      approve == Approves(a1)
      owner == RegistrationOwner(a1, reviewer)
      regs1 == IF approve
               THEN create_registration(regs, owner.user_id, owner.account_id)
               ELSE regs
      a3 == Decide(IF approve THEN Register(a1, Len(regs1)) ELSE a1, reviewer, t)
  IN IF approve /\ failing = 1
     THEN [raised |-> TRUE, apps |-> table, events |-> log, registrations |-> regs1,
           status |-> a1.status]
     ELSE [raised |-> get_event_name(a3.status) # Unbound /\ (approve \/ failing = 1),
           apps |-> [table EXCEPT ![id] = a3],
           events |-> IF approve
                      THEN RegistrationCreated(log, id, Len(regs1), table[id])
                      ELSE log,
           registrations |-> regs1, status |-> a3.status]

\* the response to a request in which save_event raised
EventFailure(op, application_id, new_status) ==
  [Request(op, application_id)
     EXCEPT !.code = "INTERNAL_SERVER_ERROR", !.event_failed = TRUE,
            !.new_status = new_status]

\* POST /applications, the event log fails
create_application_event_failure(user, account_id, invoice_details) ==
  /\ now <= MaxTime
  /\ Len(apps) < MaxApps
  /\ now' = now + 1
  /\ LET id == Len(apps) + 1
         saved == save_application(apps, user, account_id)
         r == update_application_payment_details_and_status_event_failure(
                saved, id, invoice_details, now)
     IN /\ r.raised
        /\ apps' = r.apps
        /\ history' = Held(Held(history, saved), r.apps)
        /\ last' = [EventFailure("create", id, r.status)
                      EXCEPT !.account_id = account_id, !.invoice_id = invoice_details.id,
                             !.statusCode = invoice_details.statusCode]
  /\ UNCHANGED <<events, registrations>>

\* PUT /applications/<id>/payment-details, the event log fails
update_application_payment_details_event_failure(application_id, invoice_details) ==
  /\ now <= MaxTime
  /\ \E caller \in Callers : PaymentRequestCheck(apps, caller, application_id) = "PASS"
  /\ apps[application_id].invoice_id # NoInt
  /\ now' = now + 1
  /\ LET r == update_application_payment_details_and_status_event_failure(
                apps, application_id, invoice_details, now)
     IN /\ r.raised
        /\ apps' = r.apps
        /\ history' = Held(history, r.apps)
        /\ last' = [EventFailure("payment", application_id, r.status)
                      EXCEPT !.invoice_id = invoice_details.id,
                             !.statusCode = invoice_details.statusCode]
  /\ UNCHANGED <<events, registrations>>

\* PUT /applications/<id>/status, the event log fails
update_application_status_event_failure_request(user, application_id, status, failing) ==
  /\ now <= MaxTime
  /\ StatusRequestCheck(apps, user, application_id, status) = "PASS"
  /\ now' = now + 1
  /\ LET r == update_application_status_event_failure(
                apps, events, registrations, application_id, upper(status), user,
                failing, now)
     IN /\ r.raised
        /\ apps' = r.apps
        /\ events' = r.events
        /\ registrations' = r.registrations
        /\ history' = Held(history, r.apps)
        /\ last' = [EventFailure("status", application_id, r.status)
                      EXCEPT !.status = status, !.called = TRUE, !.reviewer = user,
                             !.application_status = upper(status)]

FailureNext ==
  \/ Next
  \/ \E user \in Users, account_id \in Accounts :
       \E invoice_details \in InvoiceDetails(NextInvoiceId(apps), account_id, now) :
         create_application_event_failure(user, account_id, invoice_details)
  \/ \E application_id \in 1..MaxApps :
       \E invoice_details \in get_payment_details_by_invoice_id(apps, application_id, now) :
         update_application_payment_details_event_failure(application_id, invoice_details)
  \/ \E user \in Users, application_id \in 1..MaxApps, status \in RequestStatuses,
        failing \in {1, 2} :
       update_application_status_event_failure_request(user, application_id, status, failing)

FailureSpec == Init /\ [][FailureNext]_vars

(* ------------------------ concurrent requests ------------------------- *)
\* two requests for application 1 are served at the same time, each by its
\* own worker with its own in-memory Application object; here last holds,
\* for each worker, the request it serves
Workers == {1, 2}

\* application.save(): the row takes the columns the request changed on the
\* object it loaded
save(row, loaded, application) ==
  [f \in DOMAIN row |-> IF application[f] # loaded[f] THEN application[f] ELSE row[f]]

NoWork ==
  [pc |-> "start", op |-> "none", application |-> Application(NoInt, None),
   status |-> None, reviewer |-> NoInt, code |-> "NONE",
   completed |-> FALSE, decided |-> FALSE]

\* one application has been submitted with an invoice; no request is running
ConcurrentInit ==
  \E user \in Users, account_id \in Accounts :
    \E invoice_details \in InvoiceDetails(1, account_id, 1) :
      LET saved == save_application(<<>>, user, account_id)
          r == update_application_payment_details_and_status(
                 saved, <<>>, 1, invoice_details, 1)
      IN /\ apps = r.apps
         /\ events = r.events
         /\ registrations = <<>>
         /\ now = 2
         /\ history = Held(Held(<<>>, saved), r.apps)
         /\ last = [w \in Workers |-> NoWork]

\* PUT /applications/1/payment-details up to ApplicationService.get_application:
\* the worker holds the row as it is now
payment_request_loads(w) ==
  /\ last[w].pc = "start"
  /\ apps[1].invoice_id # NoInt
  /\ last' = [last EXCEPT ![w] = [NoWork EXCEPT !.pc = "loaded", !.op = "payment",
                                                !.application = apps[1]]]
  /\ UNCHANGED <<apps, events, registrations, now, history>>

\* the rest of that request: the payment service answers and
\* update_application_payment_details_and_status runs on the loaded object
payment_request_updates(w, invoice_details) ==
  /\ last[w].pc = "loaded" /\ last[w].op = "payment"
  /\ LET loaded == last[w].application
         r == update_application_payment_details_and_status(
                [apps EXCEPT ![1] = loaded], events, 1, invoice_details, now)
     IN /\ apps' = [apps EXCEPT ![1] = save(apps[1], loaded, r.apps[1])]
        /\ events' = r.events
        /\ last' = [last EXCEPT ![w].pc = "done", ![w].code = "OK",
                                ![w].application = r.apps[1],
                                ![w].completed = r.apps[1].payment_completion_date
                                                 # loaded.payment_completion_date]
  /\ now' = now + 1
  /\ history' = Held(history, apps')
  /\ UNCHANGED registrations

\* PUT /applications/1/status up to the terminal-state check: rejected, or
\* the worker holds the row as it is now
status_request_checks(w, user, status) ==
  /\ last[w].pc = "start"
  /\ LET check == StatusRequestCheck(apps, user, 1, status)
     IN last' = [last EXCEPT ![w] =
                   [NoWork EXCEPT !.pc = IF check = "PASS" THEN "loaded" ELSE "done",
                                  !.op = "status", !.application = apps[1],
                                  !.status = status, !.reviewer = user,
                                  !.code = IF check = "PASS" THEN "NONE" ELSE check]]
  /\ UNCHANGED <<apps, events, registrations, now, history>>

\* the rest of that request: update_application_status runs on the loaded object
status_request_updates(w) ==
  /\ last[w].pc = "loaded" /\ last[w].op = "status"
  /\ LET loaded == last[w].application
         r == update_application_status(
                [apps EXCEPT ![1] = loaded], events, registrations, 1,
                upper(last[w].status), last[w].reviewer, TRUE, now)
     IN /\ apps' = [apps EXCEPT ![1] = save(apps[1], loaded, r.apps[1])]
        /\ events' = r.events
        /\ registrations' = r.registrations
        /\ last' = [last EXCEPT ![w].pc = "done",
                                ![w].code = IF r.raised THEN "INTERNAL_SERVER_ERROR"
                                            ELSE "OK",
                                ![w].application = r.apps[1],
                                ![w].decided = r.apps[1].decision_date
                                               # loaded.decision_date]
  /\ now' = now + 1
  /\ history' = Held(history, apps')

ConcurrentNext ==
  \/ \E w \in Workers : payment_request_loads(w)
  \/ \E w \in Workers :
       \E invoice_details \in get_payment_details_by_invoice_id(apps, 1, now) :
         payment_request_updates(w, invoice_details)
  \/ \E w \in Workers, user \in Users, status \in RequestStatuses :
       status_request_checks(w, user, status)
  \/ \E w \in Workers : status_request_updates(w)

ConcurrentSpec == ConcurrentInit /\ [][ConcurrentNext]_vars

(* -------------------- after the first submission ---------------------- *)
\* the requests are counted from a state in which one application may
\* already have been submitted with an invoice
SubmittedInit ==
  \/ Init
  \/ \E user \in Users, account_id \in Accounts :
       \E invoice_details \in InvoiceDetails(1, account_id, 1) :
         LET saved == save_application(<<>>, user, account_id)
             r == update_application_payment_details_and_status(
                    saved, <<>>, 1, invoice_details, 1)
         IN /\ apps = r.apps
            /\ events = r.events
            /\ registrations = <<>>
            /\ now = 1
            /\ history = Held(Held(<<>>, saved), r.apps)
            /\ last = NoRequest

SubmittedSpec == SubmittedInit /\ [][Next]_vars

(* ----------------------------- properties ----------------------------- *)
\* the application the last request was about, when it existed before it
Target == last.application_id
TargetExisted == Target \in 1..Len(last.apps)
\* the last request left every table as it found it
NothingChanged ==
  /\ apps = last.apps
  /\ events = last.events
  /\ registrations = last.registrations
\* the events the last request logged for application i
NewEventsOf(i) ==
  {k \in (Len(last.events) + 1)..Len(events) : events[k].application_id = i}
\* the status of row i when the last request began; a row the request
\* created was first saved as DRAFT
StatusBefore(i) == IF i <= Len(last.apps) THEN last.apps[i].status ELSE "DRAFT"

\* C1: once an application's status is terminal, no request changes it.
\* The code breaks it: a payment update of a decided application whose
\* payment was not yet completed sets the status to PAID.
C1_TerminalStatusIsFinal ==
  \A i \in 1..Len(last.apps) :
    last.apps[i].status \in APPLICATION_TERMINAL_STATES => apps[i].status = last.apps[i].status

\* C2: a status update of an application whose status is terminal is answered
\* with a bad request before the service is called; nothing changes.
C2_TerminalUpdateRejected ==
  (last.op = "status" /\ TargetExisted
     /\ last.apps[Target].status \in APPLICATION_TERMINAL_STATES)
  => (last.code = "BAD_REQUEST" /\ ~last.called /\ NothingChanged)

C2_Witness ==
  /\ last.op = "status" /\ TargetExisted
  /\ last.apps[Target].status = "DECLINED"
  /\ last.status = "FULL_REVIEW_APPROVED"
  /\ last.code = "BAD_REQUEST"

\* C3: a status update whose status is missing or, upper-cased, no staff
\* action is answered with a bad request and changes nothing; the service is
\* only ever called with a staff-action status.
C3_InvalidStatusRejected ==
  /\ (last.op = "status"
        /\ (last.status = None \/ upper(last.status) \notin APPLICATION_STATES_STAFF_ACTION))
     => (last.code = "BAD_REQUEST" /\ ~last.called /\ NothingChanged)
  /\ last.called => last.application_status \in APPLICATION_STATES_STAFF_ACTION

C3_Witness ==
  /\ last.op = "status" /\ TargetExisted
  /\ last.apps[Target].status = "PAYMENT_DUE"
  /\ last.status = "paid"
  /\ last.code = "BAD_REQUEST"

\* C4: the payment update of an application whose payment status code is
\* already COMPLETED returns it as it is: no field changes, no event is logged,
\* whatever the payment service reports.
C4_CompletedPaymentUntouched ==
  (last.op = "payment" /\ last.code = "OK"
     /\ last.apps[Target].payment_status_code = "COMPLETED")
  => NothingChanged

C4_Witness ==
  /\ last.op = "payment" /\ last.code = "OK"
  /\ last.apps[Target].payment_status_code = "COMPLETED"
  /\ last.statusCode = "DELETED"

\* C5: every change of an application's saved status comes with exactly one
\* new event of that application.  The code breaks it: the change to
\* PROVISIONALLY_APPROVED is saved and no event follows (_get_event_name
\* raises), and the change to FULL_REVIEW_APPROVED logs two events.
C5_OneEventPerStatusChange ==
  \A i \in 1..Len(apps) :
    apps[i].status # StatusBefore(i) => Cardinality(NewEventsOf(i)) = 1

\* C6: after a status update to a terminal status has been saved, the row has
\* its decision date set and the caller as its reviewer.
C6_DecisionRecorded ==
  (last.called /\ last.application_status \in APPLICATION_TERMINAL_STATES
     /\ apps[Target].status = last.application_status)
  => (apps[Target].decision_date # NoInt /\ apps[Target].reviewer_id = last.reviewer)

C6_Witness ==
  /\ last.called /\ last.code = "OK"
  /\ last.application_status = "DECLINED"
  /\ apps[Target].status = "DECLINED"
  /\ apps[Target].submitter_id # last.reviewer

\* C7: decision date and reviewer are set exactly when the status is terminal
\* (in this system only a staff status update reaches a terminal status).
\* The code breaks it through C1's defect: the payment update that turns a
\* decided application to PAID leaves both fields set.
C7_DecidedIffTerminal ==
  \A i \in 1..Len(apps) :
    (apps[i].decision_date # NoInt /\ apps[i].reviewer_id # NoInt)
      <=> apps[i].status \in APPLICATION_TERMINAL_STATES

\* C8: an application has a registration id exactly when its status has at
\* some point been FULL_REVIEW_APPROVED.
C8_RegistrationIffApproved ==
  \A i \in 1..Len(apps) :
    apps[i].registration_id # NoInt <=> "FULL_REVIEW_APPROVED" \in history[i]

C8_Witness ==
  \E i \in 1..Len(apps) :
    /\ apps[i].registration_id # NoInt
    /\ apps[i].status = "PAID"
    /\ "FULL_REVIEW_APPROVED" \in history[i]

\* C9: after a successful status update to FULL_REVIEW_APPROVED the row's
\* registration id is that of a registration created by this very request,
\* for the application's submitter and payment account.
C9_ApprovalProvisions ==
  (last.called /\ last.application_status = "FULL_REVIEW_APPROVED" /\ last.code = "OK")
  => LET r == apps[Target].registration_id
     IN /\ r # NoInt
        /\ r = Len(last.registrations) + 1
        /\ Len(registrations) = r
        /\ registrations[r].user_id = apps[Target].submitter_id
        /\ registrations[r].sbc_account_id = apps[Target].payment_account

C9_Witness ==
  /\ last.called /\ last.application_status = "FULL_REVIEW_APPROVED" /\ last.code = "OK"
  /\ apps[Target].submitter_id # last.reviewer

\* C10: when the registration cannot be created, the status update fails:
\* the saved application does not become FULL_REVIEW_APPROVED, its
\* registration id stays what it was, and no event (neither
\* REGISTRATION_CREATED nor MANUALLY_APPROVED) is logged.
C10_FailedProvisioningChangesNothing ==
  (last.called /\ last.application_status = "FULL_REVIEW_APPROVED" /\ ~last.provOk)
  => /\ last.code = "INTERNAL_SERVER_ERROR"
     /\ apps[Target].status # "FULL_REVIEW_APPROVED"
     /\ apps[Target].status = last.apps[Target].status
     /\ apps[Target].registration_id = last.apps[Target].registration_id
     /\ events = last.events
     /\ registrations = last.registrations

C10_Witness ==
  /\ last.called /\ last.application_status = "FULL_REVIEW_APPROVED" /\ ~last.provOk
  /\ last.apps[Target].status = "PAID"
  /\ apps[Target].registration_id = NoInt

\* the names of all events of application i, in the order they were logged
EventNamesOf(i) ==
  LET of_i == SelectSeq(events, LAMBDA e : e.application_id = i)
  IN [k \in 1..Len(of_i) |-> of_i[k].event_name]
\* the last request created a row
Created == Len(apps) = Len(last.apps) + 1 /\ Target = Len(apps)
\* the last request ran the payment rules on an invoice with one of the codes
Reconciled(codes) ==
  /\ last.op \in {"create", "payment"}
  /\ last.code \in {"CREATED", "OK"}
  /\ last.statusCode \in codes
\* the payment status code of row i when the payment rules began
PaymentCodeBefore(i) ==
  IF i <= Len(last.apps) THEN last.apps[i].payment_status_code ELSE None

\* C11: a submission whose invoice comes back CREATED saves the application
\* as DRAFT first and leaves it PAYMENT_DUE, with the invoice's id and
\* payment status code copied, and with a trail of exactly one event,
\* APPLICATION_SUBMITTED.
C11_SubmitWithCreatedInvoice ==
  (last.op = "create" /\ last.code = "CREATED" /\ last.statusCode = "CREATED")
  => /\ Created
     /\ history[Target] = {"DRAFT", "PAYMENT_DUE"}
     /\ apps[Target].status = "PAYMENT_DUE"
     /\ apps[Target].invoice_id = last.invoice_id
     /\ apps[Target].invoice_id # NoInt
     /\ apps[Target].payment_status_code = "CREATED"
     /\ EventNamesOf(Target) = <<"APPLICATION_SUBMITTED">>

C11_Witness ==
  /\ last.op = "create" /\ last.code = "CREATED" /\ last.statusCode = "CREATED"
  /\ apps[Target].status = "PAYMENT_DUE"

\* C12: when the invoice cannot be created the submission answers with an
\* external-service error; the application stays saved as DRAFT, without
\* invoice id and payment status code, and no event is logged for it.
C12_SubmitWithoutInvoice ==
  (last.op = "create" /\ last.code = "EXTERNAL_SERVICE_ERROR")
  => /\ Created
     /\ history[Target] = {"DRAFT"}
     /\ apps[Target].status = "DRAFT"
     /\ apps[Target].invoice_id = NoInt
     /\ apps[Target].payment_status_code = None
     /\ EventNamesOf(Target) = <<>>
     /\ events = last.events

C12_Witness ==
  /\ last.op = "create" /\ last.code = "EXTERNAL_SERVICE_ERROR"
  /\ Len(apps) = Len(last.apps) + 1
  /\ apps[Target].status = "DRAFT"

\* C13: the payment rules run on an application whose payment status code
\* is not COMPLETED, with an invoice that is APPROVED or COMPLETED, leave
\* the application PAID with payment status code COMPLETED and the payment
\* completion date set, and log exactly one event, PAYMENT_COMPLETE.
C13_PaymentCompletes ==
  (Reconciled({"APPROVED", "COMPLETED"}) /\ PaymentCodeBefore(Target) # "COMPLETED")
  => /\ apps[Target].status = "PAID"
     /\ apps[Target].payment_status_code = "COMPLETED"
     /\ apps[Target].payment_completion_date # NoInt
     /\ Len(events) = Len(last.events) + 1
     /\ events[Len(events)].event_name = "PAYMENT_COMPLETE"
     /\ events[Len(events)].application_id = Target

C13_Witness ==
  /\ Reconciled({"APPROVED"}) /\ last.op = "payment"
  /\ last.apps[Target].payment_status_code = "CREATED"
  /\ apps[Target].status = "PAID"

\* the APPLICATION events the last request logged for its application
NewApplicationEvents ==
  {k \in NewEventsOf(Target) : events[k].event_type = "APPLICATION"}

\* C14: a status update to FULL_REVIEW_APPROVED, DECLINED or
\* ADDITIONAL_INFO_REQUESTED that goes through logs, after the application
\* is saved with the new status, exactly one APPLICATION event, named
\* MANUALLY_APPROVED, MANUALLY_DENIED or MORE_INFORMATION_REQUESTED; a
\* status without a name ends in an error and logs no APPLICATION event.
C14_EventNameOfStatus ==
  last.called
  => LET name == get_event_name(last.application_status)
     IN IF name = Unbound
        THEN /\ last.code = "INTERNAL_SERVER_ERROR"
             /\ NewApplicationEvents = {}
        ELSE last.code = "OK"
             => /\ name = CASE last.application_status = "FULL_REVIEW_APPROVED"
                                 -> "MANUALLY_APPROVED"
                            [] last.application_status = "DECLINED"
                                 -> "MANUALLY_DENIED"
                            [] last.application_status = "ADDITIONAL_INFO_REQUESTED"
                                 -> "MORE_INFORMATION_REQUESTED"
                            [] OTHER -> "?"
                /\ Cardinality(NewApplicationEvents) = 1
                /\ \A k \in NewApplicationEvents :
                     /\ events[k].event_name = name
                     /\ events[k].saved_status = last.application_status
                     /\ k = Len(events)

C14_Witness ==
  /\ last.called /\ last.application_status = "PROVISIONALLY_APPROVED"
  /\ last.code = "INTERNAL_SERVER_ERROR"
  /\ apps[Target].status = "PROVISIONALLY_APPROVED"

\* C15: a status update to anything but FULL_REVIEW_APPROVED creates no
\* registration, logs no REGISTRATION_CREATED and leaves the registration
\* id alone; DECLINED leaves the application DECLINED, with decision date
\* and reviewer, and one event MANUALLY_DENIED.
C15_OnlyApprovalProvisions ==
  (last.called /\ last.application_status # "FULL_REVIEW_APPROVED")
  => /\ registrations = last.registrations
     /\ \A k \in (Len(last.events) + 1)..Len(events) :
          events[k].event_name # "REGISTRATION_CREATED"
     /\ apps[Target].registration_id = last.apps[Target].registration_id
     /\ last.application_status = "DECLINED"
        => /\ apps[Target].status = "DECLINED"
           /\ apps[Target].decision_date # NoInt
           /\ apps[Target].reviewer_id = last.reviewer
           /\ Len(events) = Len(last.events) + 1
           /\ events[Len(events)].event_name = "MANUALLY_DENIED"

C15_Witness ==
  /\ last.called /\ last.application_status = "DECLINED"
  /\ apps[Target].status = "DECLINED"
  /\ last.apps[Target].status = "PAID"

\* what the payment rules write
PaymentFields(application) ==
  <<application.invoice_id, application.payment_status_code,
    application.payment_completion_date, application.payment_account>>

\* C20 as the specification has it: invoice id, payment status code, payment
\* completion date and payment account are unset after the creation of the
\* row and a status update leaves all four as they were.  The code sets the
\* payment account when it creates the row.
C20_PaymentFieldsOnlyByPaymentRules ==
  /\ (last.op = "create" /\ last.code = "EXTERNAL_SERVICE_ERROR" /\ Created)
     => PaymentFields(apps[Target]) = <<NoInt, None, NoInt, None>>
  /\ last.op = "status"
     => \A i \in 1..Len(apps) : PaymentFields(apps[i]) = PaymentFields(last.apps[i])

\* C20 as the code has it: the creation of the row leaves invoice id, payment
\* status code and payment completion date unset and sets the payment account
\* to the account of the caller; a status update leaves all four as they were.
C20_PaymentFieldsAfterCreation ==
  /\ (last.op = "create" /\ last.code = "EXTERNAL_SERVICE_ERROR" /\ Created)
     => PaymentFields(apps[Target]) = <<NoInt, None, NoInt, last.account_id>>
  /\ last.op = "status"
     => \A i \in 1..Len(apps) : PaymentFields(apps[i]) = PaymentFields(last.apps[i])

C20_Witness ==
  /\ last.op = "create" /\ last.code = "EXTERNAL_SERVICE_ERROR" /\ Created
  /\ apps[Target].payment_account \in Accounts
  /\ apps[Target].invoice_id = NoInt

\* the caller of the last query is an examiner or the system
Privileged == last.role \in {"examiner", "system"}
\* the last query left the tables as it found them
QueryChangedNothing == apps = last.apps /\ events = <<>> /\ registrations = <<>>

\* C16: the authorization check answers true for an examiner and for the
\* system whatever the id, and for anyone else exactly when a row with that
\* id has the caller as submitter and the given account as payment account;
\* it changes no table.  So the details of an application are never given
\* to an unprivileged caller who is not its submitter on that account.
C16_Authorized ==
  /\ last.op = "authorize"
     => /\ last.authorized
           = (\/ Privileged
              \/ \E i \in 1..Len(apps) :
                   /\ i = last.application_id
                   /\ apps[i].submitter_id = last.user_id
                   /\ apps[i].payment_account = last.account_id)
        /\ QueryChangedNothing
  /\ (last.op = "details" /\ last.code = "OK" /\ ~Privileged)
     => /\ apps[last.application].submitter_id = last.user_id
        /\ apps[last.application].payment_account = last.account_id
  /\ last.op = "details" => QueryChangedNothing

C16_Witness ==
  /\ last.op = "authorize" /\ ~Privileged /\ ~last.authorized
  /\ last.application_id \in 1..Len(apps)
  /\ apps[last.application_id].submitter_id = last.user_id
  /\ apps[last.application_id].payment_account # last.account_id

\* C17: the list of applications of a caller who is no examiner holds only
\* rows with the caller as submitter and the caller's account as payment
\* account; with a status filter it holds only rows whose status is the
\* filter in upper case; the rows come by id, strictly descending.
C17_ListRestricted ==
  (last.op = "list" /\ last.code = "OK")
  => /\ \A k \in 1..Len(last.applications) :
          LET i == last.applications[k]
          IN /\ i \in 1..Len(apps)
             /\ last.role # "examiner"
                => /\ apps[i].submitter_id = last.user_id
                   /\ apps[i].payment_account = last.account_id
             /\ last.status # None => apps[i].status = upper(last.status)
     /\ \A k \in 1..(Len(last.applications) - 1) :
          last.applications[k] > last.applications[k + 1]

C17_Witness ==
  /\ last.op = "list" /\ last.code = "OK" /\ last.role = "system"
  /\ last.status = "draft"
  /\ Len(apps) = 2 /\ last.applications = <<1>>
  /\ apps[2].status = "DRAFT" /\ apps[2].submitter_id # last.user_id

\* the rows the last paginated query matches
Matches ==
  {i \in 1..Len(apps) :
     /\ (last.op = "list" /\ last.role # "examiner")
        => /\ apps[i].submitter_id = last.user_id
           /\ apps[i].payment_account = last.account_id
     /\ last.op = "search" => i \in last.hits
     /\ last.status # None => apps[i].status = upper(last.status)}
\* the answer holds the rows of the page, largest id first, and the count of
\* all matches
PageAnswered ==
  LET before == (last.page - 1) * last.limit
      left == Cardinality(Matches) - before
  IN /\ last.code = "OK"
     /\ Len(last.applications)
          = IF left <= 0 THEN 0 ELSE IF left < last.limit THEN left ELSE last.limit
     /\ \A k \in 1..Len(last.applications) :
          /\ last.applications[k] \in Matches
          /\ Cardinality({j \in Matches : j > last.applications[k]}) = before + k - 1
     /\ last.total = Cardinality(Matches)

\* C18: for every page p >= 1 and limit l >= 1 a paginated query answers
\* with the items at positions (p-1)*l up to p*l of the matching rows by
\* descending id, fewer when the rows end inside the page, and with the
\* count of all matching rows.  The code breaks it for the pages of C19.
C18_PageWindow ==
  last.op \in {"list", "search"} => PageAnswered

\* C19: a page p > 1 beyond the matching rows, of the list or of the
\* search, is answered with success, an empty list and the count of all
\* matching rows.  The code breaks it: paginate aborts with 404.
C19_PageBeyondData ==
  (/\ last.op \in {"list", "search"}
   /\ last.page > 1
   /\ (last.page - 1) * last.limit >= Cardinality(Matches))
  => /\ last.code = "OK"
     /\ last.applications = <<>>
     /\ last.total = Cardinality(Matches)

\* C21: every event is written only after the change it reports is saved:
\* APPLICATION_SUBMITTED after PAYMENT_DUE, PAYMENT_COMPLETE after PAID,
\* REGISTRATION_CREATED after the registration id is on the saved row, and
\* the event of a status update after the new status.  The code breaks it:
\* APPLICATION_SUBMITTED and REGISTRATION_CREATED are written before
\* application.save().
C21_EventAfterSave ==
  \A k \in 1..Len(events) :
    LET e == events[k]
    IN /\ e.event_name = "APPLICATION_SUBMITTED" => e.saved_status = "PAYMENT_DUE"
       /\ e.event_name = "PAYMENT_COMPLETE" => e.saved_status = "PAID"
       /\ e.event_name = "REGISTRATION_CREATED"
          => e.saved_registration_id = e.registration_id
       /\ e.event_name = "MANUALLY_APPROVED" => e.saved_status = "FULL_REVIEW_APPROVED"
       /\ e.event_name = "MANUALLY_DENIED" => e.saved_status = "DECLINED"
       /\ e.event_name = "MORE_INFORMATION_REQUESTED"
          => e.saved_status = "ADDITIONAL_INFO_REQUESTED"

\* C22: when the event log fails during a payment update or a status
\* update, the status the operation gave the application is saved all the
\* same.  The code breaks it: a failure of APPLICATION_SUBMITTED or of
\* REGISTRATION_CREATED leaves the method before application.save().
C22_EventFailureKeepsTransition ==
  last.event_failed => apps[Target].status = last.new_status

\* C23: two payment updates of one application that run at the same time
\* and are both told the payment is COMPLETED or APPROVED process it once:
\* at most one PAYMENT_COMPLETE is logged and the payment completion date
\* is written once.  The code breaks it: both requests load the row before
\* either saves, and both pass the guard.
C23_PaymentProcessedOnce ==
  /\ Cardinality({k \in 1..Len(events) : events[k].event_name = "PAYMENT_COMPLETE"}) <= 1
  /\ Cardinality({w \in Workers : last[w].completed}) <= 1

\* C24: of two status updates of one application that run at the same
\* time, the second is rejected once the first has decided: the application
\* gets at most one decision and at most one registration.  The code breaks
\* it: both requests pass the terminal-state check before either saves.
C24_OneDecision ==
  /\ Cardinality({w \in Workers : last[w].decided}) <= 1
  /\ Len(registrations) <= 1

\* C25: a search with a text of one or two characters is answered with a
\* bad-request error and the store is not searched; a search with no text,
\* an empty text or a text of three or more characters reaches the store.
C25_ShortSearchTextRejected ==
  last.op = "search"
  => IF last.search_text \in {"l", "la"}
     THEN /\ last.code = "BAD_REQUEST"
          /\ ~last.searched
          /\ last.applications = <<>>
     ELSE /\ last.searched
          /\ last.code # "BAD_REQUEST"

C25_Witness ==
  /\ last.op = "search" /\ last.search_text = "la" /\ last.code = "BAD_REQUEST"
  /\ Len(apps) > 0

\* row i as the last request found it; a row it created, as first saved
RowBefore(i) ==
  IF i <= Len(last.apps) THEN last.apps[i]
  ELSE Application(apps[i].submitter_id, last.account_id)

C27_ApprovalFollowsRegistration ==
  /\ \A k \in 1..Len(events) :
       events[k].event_name = "MANUALLY_APPROVED"
       => /\ k > 1
          /\ events[k - 1].event_name = "REGISTRATION_CREATED"
          /\ events[k - 1].application_id = events[k].application_id
          /\ events[k - 1].registration_id # NoInt
  /\ (last.called /\ last.application_status = "FULL_REVIEW_APPROVED" /\ last.code = "OK")
     => /\ Len(events) = Len(last.events) + 2
        /\ events[Len(events)].event_name = "MANUALLY_APPROVED"
        /\ events[Len(events) - 1].event_name = "REGISTRATION_CREATED"
        /\ events[Len(events) - 1].registration_id = apps[Target].registration_id

C27_Witness ==
  /\ last.called /\ last.application_status = "FULL_REVIEW_APPROVED" /\ last.code = "OK"
  /\ events[Len(events)].event_name = "MANUALLY_APPROVED"
  /\ Len(last.events) > 0

\* C28: over requests served one after the other, at most one registration
\* is created for an application and a registration id, once set, is never
\* overwritten.  The code breaks it: an approved application whose payment
\* was not completed is set back to PAID by a payment update (C1) and can
\* be approved again.
C28_OneRegistrationPerApplication ==
  /\ \A i \in 1..Len(apps) :
       Cardinality({k \in 1..Len(events) :
                      /\ events[k].event_name = "REGISTRATION_CREATED"
                      /\ events[k].application_id = i}) <= 1
  /\ \A i \in 1..Len(last.apps) :
       last.apps[i].registration_id # NoInt
       => apps[i].registration_id = last.apps[i].registration_id

\* C29: a registration is created only for a paid application: an
\* application that is FULL_REVIEW_APPROVED or has a registration id has
\* payment status code COMPLETED.  The code breaks it: the status update
\* does not look at the unpaid states.
C29_ApprovedIsPaid ==
  \A i \in 1..Len(apps) :
    (apps[i].status = "FULL_REVIEW_APPROVED" \/ apps[i].registration_id # NoInt)
    => apps[i].payment_status_code = "COMPLETED"

\* C30: an application that is PAID has payment status code COMPLETED and
\* a payment completion date.
C30_PaidIsCompleted ==
  \A i \in 1..Len(apps) :
    apps[i].status = "PAID"
    => /\ apps[i].payment_status_code = "COMPLETED"
       /\ apps[i].payment_completion_date # NoInt

C30_Witness ==
  /\ Reconciled({"COMPLETED"}) /\ last.op = "payment"
  /\ last.apps[Target].status # "PAID"
  /\ apps[Target].status = "PAID"

\* the places of the events of that name in the trail of application i
PlacesOf(i, name) ==
  {k \in 1..Len(EventNamesOf(i)) : EventNamesOf(i)[k] = name}

\* C31: over requests served one after the other, the trail of an
\* application holds at most one APPLICATION_SUBMITTED and at most one
\* PAYMENT_COMPLETE, and APPLICATION_SUBMITTED comes first when both are there.
C31_SubmittedOncePaidOnce ==
  \A i \in 1..Len(apps) :
    /\ Cardinality(PlacesOf(i, "APPLICATION_SUBMITTED")) <= 1
    /\ Cardinality(PlacesOf(i, "PAYMENT_COMPLETE")) <= 1
    /\ \A k \in PlacesOf(i, "APPLICATION_SUBMITTED") :
         \A j \in PlacesOf(i, "PAYMENT_COMPLETE") : k < j

C31_Witness ==
  /\ Len(apps) > 0
  /\ PlacesOf(1, "APPLICATION_SUBMITTED") # {}
  /\ PlacesOf(1, "PAYMENT_COMPLETE") # {}
  /\ last.op = "payment" /\ last.code = "OK" /\ last.apps[1].status = "PAID"

\* C32: a status update answered with an error (bad request, not found,
\* internal error) leaves the saved application as it was: status, decision
\* date, reviewer and registration id.  The code breaks it: the update to
\* PROVISIONALLY_APPROVED is saved before _get_event_name raises.
C32_ErrorLeavesApplication ==
  (/\ last.op = "status"
   /\ last.code \in {"BAD_REQUEST", "NOT_FOUND", "INTERNAL_SERVER_ERROR"}
   /\ TargetExisted)
  => /\ apps[Target].status = last.apps[Target].status
     /\ apps[Target].decision_date = last.apps[Target].decision_date
     /\ apps[Target].reviewer_id = last.apps[Target].reviewer_id
     /\ apps[Target].registration_id = last.apps[Target].registration_id

\* the statuses the three operations can give an application
ReachedStatuses ==
  {"DRAFT", "PAYMENT_DUE", "PAID", "FULL_REVIEW_APPROVED", "PROVISIONALLY_APPROVED",
   "DECLINED", "ADDITIONAL_INFO_REQUESTED"}

\* C33: the status of an application is always one of DRAFT, PAYMENT_DUE,
\* PAID, FULL_REVIEW_APPROVED, PROVISIONALLY_APPROVED, DECLINED and
\* ADDITIONAL_INFO_REQUESTED; DRAFT is not entered again once left, and
\* PAYMENT_DUE is entered only from DRAFT.
C33_StatusesReached ==
  \A i \in 1..Len(apps) :
    /\ apps[i].status \in ReachedStatuses
    /\ history[i] \subseteq ReachedStatuses
    /\ apps[i].status = "DRAFT" => history[i] = {"DRAFT"}
    /\ (apps[i].status = "PAYMENT_DUE" /\ StatusBefore(i) # "PAYMENT_DUE")
       => StatusBefore(i) = "DRAFT"

C33_Witness ==
  /\ last.op = "payment" /\ last.code = "OK"
  /\ last.apps[Target].status = "DRAFT"
  /\ apps[Target].status = "PAYMENT_DUE"

====
